---- MODULE Spec2Model ----
(***************************************************************************)
(* Meeting Intelligence (Obsidian plugin): the recording / transcription   *)
(* pipeline of MeetingModal in src/main.js as a state machine.             *)
(*                                                                         *)
(* JavaScript runs handlers to completion; a handler is cut only where it  *)
(* really suspends (an await on a pending promise, an event, a child       *)
(* process exit, a timer).  Each action below is one such run-to-completion*)
(* segment.  The whisper engine is an external process: it reads the file  *)
(* named by -f at some moment after it is spawned and, at exit, may write  *)
(* the sidecar <audioPath>.txt.                                            *)
(***************************************************************************)
EXTENDS Integers, Sequences, FiniteSets, TLC

\* ---------------------------------------------------------------- bounds
NumModals == 2      \* MeetingModal objects created by the ribbon / command
MaxRuns == 2        \* MediaRecorder objects created in the whole behaviour

Modals == 1..NumModals
Recorders == 1..MaxRuns

\* Values typed into the title input (trim() of "" is empty).
Titles == {"", "Standup", "Review"}

\* toISOString().split('T')[0]: all notes of a behaviour are taken on one day.
Today == "2025-10-03"

\* -------------------------------------------------------------- paths
\* A path is a sequence of text pieces; the piece ".wav" is kept apart so
\* that String.replace('.wav', ...) can be computed as the code computes it.
BasePaths == { <<"/vault">>, <<"/rec", ".wav", "/vault">> }

tempDir(bp) == bp \o <<"/.obsidian/plugins/meeting-intelligence/temp">>

audioPathOf(bp) == tempDir(bp) \o <<"/meeting", ".wav">>

\* The file whisper-cli writes with --output-txt: <audioFile>.txt
engineSidecarPath(ap) == ap \o <<".txt">>

IndexOfFirst(s, piece) ==
    IF \E i \in 1..Len(s) : s[i] = piece
    THEN CHOOSE i \in 1..Len(s) : s[i] = piece /\ \A j \in 1..(i - 1) : s[j] # piece
    ELSE 0

\* String.prototype.replace with a string pattern: the first occurrence only.
StringReplace(s, piece, rep) ==
    LET i == IndexOfFirst(s, piece)
    IN IF i = 0 THEN s ELSE SubSeq(s, 1, i - 1) \o rep \o SubSeq(s, i + 1, Len(s))

\* audioPath.replace('.wav', '.wav.txt')
txtPathOf(ap) == StringReplace(ap, ".wav", <<".wav", ".txt">>)

\* ------------------------------------------------------------ file system
Exists(f, p) == p \in DOMAIN f

WriteFile(f, p, c) == [q \in (DOMAIN f) \cup {p} |-> IF q = p THEN c ELSE f[q]]

Unlink(f, p) == [q \in (DOMAIN f) \ {p} |-> f[q]]

\* The bytes processRecording writes: Buffer.from(await blob.arrayBuffer()),
\* the MediaRecorder container as captured.
RawAudio(chunks) == [kind |-> "audio", format |-> "raw", chunks |-> chunks]

\* AudioConverter.convertBlobToWav: decode, downmix, resample, 16-bit PCM WAV.
convertBlobToWav(chunks) == [kind |-> "audio", format |-> "pcm16", chunks |-> chunks]

\* The sidecar the engine writes for the audio it read: the words spoken in
\* the chunks, followed by a newline.
SidecarText(in) == [kind |-> "text", words |-> in.chunks, newline |-> TRUE]

\* readFileSync(txtPath, 'utf-8').trim()
Trim(c) == c.words

EmptyTranscript == <<>>

NoInput == [present |-> FALSE, format |-> "none", chunks |-> <<>>]

ReadInput(f, p) ==
    IF Exists(f, p)
    THEN [present |-> TRUE, format |-> f[p].format, chunks |-> f[p].chunks]
    ELSE NoInput

\* ---------------------------------------------------------------- settings
\* DEFAULT_SETTINGS.whisperPath
DefaultWhisperPath == "/opt/homebrew/opt/whisper-cpp/bin/whisper-cli"

\* Values of the 'Whisper CLI Path' text setting: the default, an empty
\* field, a path where nothing is installed.
WhisperPaths == {DefaultWhisperPath, "", "/usr/local/bin/whisper"}

\* The executables present on the machine.
InstalledEngines == {DefaultWhisperPath}

Resolvable(whisperPath) == whisperPath \in InstalledEngines

\* The options of the 'Language' dropdown.
Languages == {"auto", "en", "de", "es", "fr", "it", "pt", "ja", "ko", "zh"}

\* Options of the 'Model Size' dropdown used here.
ModelSizes == {"tiny", "base", "small"}

DEFAULT_SETTINGS ==
    [ whisperPath |-> DefaultWhisperPath,
      modelSize |-> "base",
      language |-> "auto",
      autoExtractActionItems |-> TRUE,
      autoDetectDecisions |-> TRUE,
      autoLinkNotes |-> TRUE ]

\* models/ggml-<modelSize>.bin under the plugin directory
modelPathOf(bp, modelSize) ==
    bp \o <<"/.obsidian/plugins/meeting-intelligence/models", "/ggml-", modelSize, ".bin">>

Word(w) == [kind |-> "word", word |-> w]

PathWord(p) == [kind |-> "path", path |-> p]

\* Mutant of the command: the language test is inverted.
command_LanguageInverted(st, modelPath, ap) ==
    (IF st.whisperPath = "" THEN <<>> ELSE <<Word(st.whisperPath)>>)
    \o <<Word("-m"), PathWord(modelPath)>>
    \o (IF st.language # "auto" THEN <<>> ELSE <<Word("-l"), Word(st.language)>>)
    \o <<Word("-f"), PathWord(ap), Word("--output-txt")>>

\* The command line of transcribeAudio, as the words the shell makes of
\*   `${whisperPath} -m "${modelPath}" ${language} -f "${audioPath}" --output-txt`
\* with language = '' for 'auto' and `-l ${language}` otherwise.
command(st, modelPath, ap) ==
    (IF st.whisperPath = "" THEN <<>> ELSE <<Word(st.whisperPath)>>)
    \o <<Word("-m"), PathWord(modelPath)>>
    \o (IF st.language = "auto" THEN <<>> ELSE <<Word("-l"), Word(st.language)>>)
    \o <<Word("-f"), PathWord(ap), Word("--output-txt")>>

\* ------------------------------------------------------------------ state
VARIABLES
    basePath,      \* vault.adapter.basePath
    modelPresent,  \* models/ggml-<modelSize>.bin exists
    fs,            \* files of the temp directory: path -> content
    notes,         \* notes created in the vault
    modal,         \* MeetingModal objects
    run,           \* one record per MediaRecorder and the pipeline it triggers
    streams,       \* microphone streams whose tracks are live
    timers,        \* setInterval timers that are running
    settings,      \* plugin.settings
    inText,        \* the text handed to a function examined on its own
    corpus,        \* vault.getMarkdownFiles(): the basenames, in vault order
    noteMeta,      \* date, time, title, attendees and duration of a note
    audioBuffer,   \* the decoded recording handed to audioBufferToWav
    result         \* what the function examined on its own returned

vars == <<basePath, modelPresent, fs, notes, modal, run, streams, timers,
          settings, inText, corpus, noteMeta, audioBuffer, result>>

\* The variables of the functions examined on their own; the pipeline
\* leaves them alone.
pureVars == <<inText, corpus, noteMeta, audioBuffer, result>>

NoResult == [fn |-> "none"]

\* the inputs of createMeetingNote and of audioBufferToWav where neither is
\* examined
NoMeta == [date |-> <<>>, time |-> <<>>, title |-> <<>>, attendees |-> <<>>,
           duration |-> <<>>]

NoAudio == [numberOfChannels |-> 0, sampleRate |-> 0, length |-> 0]

NewModal ==
    [ phase |-> "none",            \* "none" | "open" | "closed"
      isRecording |-> FALSE,
      audioChunks |-> <<>>,
      timerInterval |-> 0,
      mediaRecorder |-> 0,
      pendingStarts |-> 0,         \* startRecording calls awaiting getUserMedia
      title |-> "",
      btnText |-> "start",
      btnClass |-> "primary",
      btnDisabled |-> FALSE,
      status |-> "ready",
      titleDisabled |-> FALSE,
      attendeesDisabled |-> FALSE,
      progressShown |-> FALSE,
      progress |-> 0,
      micLevel |-> "low" ]         \* width of the level meter

NewRun ==
    [ owner |-> 0,
      rec |-> "unused",            \* MediaRecorder.state
      pc |-> "idle",
      byClose |-> FALSE,           \* the recorder was stopped by onClose
      blob |-> <<>>,
      engineInput |-> NoInput,
      error |-> FALSE,
      sidecarRead |-> FALSE,
      transcription |-> EmptyTranscript,
      notice |-> "none",
      levelLoop |-> "off",         \* "scheduled": updateLevel awaits a frame
      reported |-> <<>> ]          \* percents passed to updateTranscribeProgress

Init ==
    /\ basePath \in BasePaths
    /\ modelPresent \in BOOLEAN
    /\ fs = << >>
    /\ notes = {}
    /\ modal = [m \in Modals |-> NewModal]
    /\ run = [r \in Recorders |-> NewRun]
    /\ streams = {}
    /\ timers = {}
    /\ settings \in {[DEFAULT_SETTINGS EXCEPT !.whisperPath = w] :
                        w \in {DefaultWhisperPath, ""}}
    /\ inText = <<>>
    /\ corpus = <<>>
    /\ noteMeta = NoMeta
    /\ audioBuffer = NoAudio
    /\ result = NoResult

audioPath == audioPathOf(basePath)

UsedRecorders == {r \in Recorders : run[r].rec # "unused"}

RECURSIVE SumPending(_)
SumPending(k) == IF k = 0 THEN 0 ELSE modal[k].pendingStarts + SumPending(k - 1)

TotalPending == SumPending(NumModals)

FreshRecorder == CHOOSE r \in Recorders \ UsedRecorders :
                     \A q \in Recorders \ UsedRecorders : r <= q

\* ------------------------------------------------------------ UI helpers
\* MeetingModal.updateTranscribeProgress
updateTranscribeProgress(md, percent) == [md EXCEPT !.progress = percent]

\* MeetingModal.resetModal
resetModal(md) ==
    [md EXCEPT !.btnText = "start",
               !.btnDisabled = FALSE,
               !.btnClass = "primary",
               !.status = "ready",
               !.titleDisabled = FALSE,
               !.attendeesDisabled = FALSE,
               !.progressShown = FALSE]

\* MediaRecorder.stop() of recorder r: a recording recorder becomes inactive
\* and its dataavailable and stop events are queued; an inactive one is left.
RecorderStop(rn, r, closing) ==
    IF r # 0 /\ rn[r].rec = "recording"
    THEN [rn EXCEPT ![r].rec = "inactive", ![r].pc = "stopping", ![r].byClose = closing]
    ELSE rn

\* ---------------------------------------------------------------- actions
\* Ribbon icon / command: new MeetingModal(...).open(); constructor and onOpen.
OpenModal(m) ==
    /\ modal[m].phase = "none"
    /\ \A k \in Modals : k < m => modal[k].phase # "none"
    /\ modal' = [modal EXCEPT ![m].phase = "open"]
    /\ UNCHANGED <<settings, pureVars, basePath, modelPresent, fs, notes, run, streams, timers>>

\* The user types into the title input.
EditTitle(m, t) ==
    /\ modal[m].phase = "open"
    /\ ~modal[m].titleDisabled
    /\ t # modal[m].title
    /\ modal' = [modal EXCEPT ![m].title = t]
    /\ UNCHANGED <<settings, pureVars, basePath, modelPresent, fs, notes, run, streams, timers>>

\* startRecording up to its await: the title check (a Notice and return when
\* the title is empty), then getUserMedia.
startRecording(m) ==
    /\ IF modal[m].title = ""
       THEN UNCHANGED modal
       ELSE /\ Cardinality(UsedRecorders) + TotalPending < MaxRuns
            /\ modal' = [modal EXCEPT ![m].pendingStarts = @ + 1]
    /\ UNCHANGED <<run, timers>>

\* stopRecording
stopRecording(m) ==
    /\ run' = RecorderStop(run, modal[m].mediaRecorder, FALSE)
    /\ timers' = timers \ {modal[m].timerInterval}
    /\ modal' = [modal EXCEPT ![m].isRecording = FALSE,
                              ![m].btnText = "processing",
                              ![m].btnDisabled = TRUE,
                              ![m].status = "processing"]

\* recordButton.onclick = toggleRecording; a disabled or removed button
\* dispatches no click.
toggleRecording(m) ==
    /\ modal[m].phase = "open"
    /\ ~modal[m].btnDisabled
    /\ IF ~modal[m].isRecording THEN startRecording(m) ELSE stopRecording(m)
    /\ UNCHANGED <<settings, pureVars, basePath, modelPresent, fs, notes, streams>>

\* Levels the meter shows (updateMicLevel).
Levels == {"low", "high"}

\* updateLevel: it returns at once when isRecording is false; otherwise it
\* sets the meter (updateMicLevel) and asks for the next animation frame.
updateLevel(md) == IF ~md.isRecording THEN "off" ELSE "scheduled"

updateMicLevel(md, level) == IF ~md.isRecording THEN md.micLevel ELSE level

\* getUserMedia resolves: the rest of startRecording's try block.  The
\* first updateLevel() call comes before isRecording = true.
GetUserMediaResolve(m, level) ==
    /\ modal[m].pendingStarts > 0
    /\ LET r == FreshRecorder IN
        /\ run' = [run EXCEPT ![r].owner = m, ![r].rec = "recording",
                              ![r].levelLoop = updateLevel(modal[m])]
        /\ streams' = streams \cup {r}
        /\ timers' = timers \cup {r}
        /\ modal' = [modal EXCEPT ![m].pendingStarts = @ - 1,
                                  ![m].micLevel = updateMicLevel(modal[m], level),
                                  ![m].mediaRecorder = r,
                                  ![m].audioChunks = <<>>,
                                  ![m].isRecording = TRUE,
                                  ![m].btnText = "stop",
                                  ![m].btnClass = "stop",
                                  ![m].status = "recording",
                                  ![m].titleDisabled = TRUE,
                                  ![m].attendeesDisabled = TRUE,
                                  ![m].timerInterval = r]
    /\ UNCHANGED <<settings, pureVars, basePath, modelPresent, fs, notes>>

\* getUserMedia rejects: the catch block shows a Notice.
GetUserMediaReject(m) ==
    /\ modal[m].pendingStarts > 0
    /\ modal' = [modal EXCEPT ![m].pendingStarts = @ - 1]
    /\ UNCHANGED <<settings, pureVars, basePath, modelPresent, fs, notes, run, streams, timers>>

\* MeetingModal.onClose, called by Modal.close(): a recording in progress is
\* stopped (its onstop handler stays attached) and the timer cleared;
\* isRecording is left as it is.
onClose(rn, m) ==
    /\ IF modal[m].isRecording
       THEN /\ run' = RecorderStop(rn, modal[m].mediaRecorder, TRUE)
            /\ timers' = timers \ {modal[m].timerInterval}
       ELSE /\ run' = rn
            /\ UNCHANGED timers
    /\ modal' = [modal EXCEPT ![m].phase = "closed"]

\* The user closes the modal (Close button, Escape, click outside).
CloseModal(m) ==
    /\ modal[m].phase = "open"
    /\ onClose(run, m)
    /\ UNCHANGED <<settings, pureVars, basePath, modelPresent, fs, notes, streams>>

\* The recorder's stop task: dataavailable pushes the recorded chunk onto
\* this.audioChunks, then onstop calls processRecording, which builds the
\* blob and suspends on blob.arrayBuffer().
RecorderStopEvent(r) ==
    /\ run[r].pc = "stopping"
    /\ LET m == run[r].owner
           chunks == Append(modal[m].audioChunks, r)
       IN /\ modal' = [modal EXCEPT ![m].audioChunks = chunks]
          /\ run' = [run EXCEPT ![r].blob = chunks, ![r].pc = "arrayBuffer"]
    /\ UNCHANGED <<settings, pureVars, basePath, modelPresent, fs, notes, streams, timers>>

\* transcribeAudio up to exec(): progress 10, the model check, progress 30.
transcribeAudio(r) ==
    LET m == run[r].owner
        shown == [modal[m] EXCEPT !.progressShown = TRUE]
        started == updateTranscribeProgress(shown, 10)
    IN IF ~modelPresent
       THEN /\ modal' = [modal EXCEPT ![m] = resetModal(started)]
            /\ run' = [run EXCEPT ![r].notice = "modelMissing", ![r].pc = "failed",
                                  ![r].reported = <<10>>]
       ELSE /\ modal' = [modal EXCEPT ![m] = updateTranscribeProgress(started, 30)]
            /\ run' = [run EXCEPT ![r].pc = "spawned", ![r].reported = <<10, 30>>]

\* The captured blob as processRecording writes it to audioPath.
TempAudioContent(chunks) == RawAudio(chunks)

\* processRecording after the arrayBuffer: writeFileSync(audioPath, buffer),
\* then transcribeAudio.  writeFileSync throws when the disk refuses the
\* write; the exception leaves processRecording as an unhandled rejection.
processRecording(r, diskOk) ==
    /\ run[r].pc = "arrayBuffer"
    /\ IF diskOk
       THEN /\ fs' = WriteFile(fs, audioPath, TempAudioContent(run[r].blob))
            /\ transcribeAudio(r)
       ELSE /\ run' = [run EXCEPT ![r].pc = "crashed"]
            /\ UNCHANGED <<fs, modal>>
    /\ UNCHANGED <<settings, pureVars, basePath, modelPresent, notes, streams, timers>>

\* The engine process opens the file named by -f.
EngineRead(r) ==
    /\ run[r].pc = "spawned"
    /\ Resolvable(settings.whisperPath)
    /\ run' = [run EXCEPT ![r].engineInput = ReadInput(fs, audioPath),
                          ![r].pc = "running"]
    /\ UNCHANGED <<settings, pureVars, basePath, modelPresent, fs, notes, modal, streams, timers>>

\* The engine process ends: a spawn failure or a nonzero exit (error), or
\* exit 0 after reading its input, with or without the sidecar written.
EngineExit(r, ok, sidecar) ==
    /\ run[r].pc \in {"spawned", "running"}
    /\ ok => run[r].pc = "running" /\ run[r].engineInput.present
    /\ sidecar => ok
    /\ fs' = IF sidecar
             THEN WriteFile(fs, engineSidecarPath(audioPath), SidecarText(run[r].engineInput))
             ELSE fs
    /\ run' = [run EXCEPT ![r].error = ~ok, ![r].pc = "exited"]
    /\ UNCHANGED <<settings, pureVars, basePath, modelPresent, notes, modal, streams, timers>>

\* Mutant of the error branch: it also unlinks the temp audio file.
ExecCallbackError_Unlinking(r) ==
    LET m == run[r].owner
    IN /\ modal' = [modal EXCEPT ![m] = resetModal(modal[m])]
       /\ run' = [run EXCEPT ![r].notice = "transcriptionFailed", ![r].pc = "failed"]
       /\ fs' = Unlink(fs, audioPath)

\* exec callback, error branch: Notice, resetModal, return.
ExecCallbackError(r) ==
    LET m == run[r].owner
    IN /\ modal' = [modal EXCEPT ![m] = resetModal(modal[m])]
       /\ run' = [run EXCEPT ![r].notice = "transcriptionFailed", ![r].pc = "failed"]
       /\ UNCHANGED fs

\* exec callback, success branch up to the first await of createMeetingNote:
\* progress 70, read and unlink the sidecar at txtPath if it exists, unlink
\* audioPath (unlinkSync throws when the file is gone), progress 90.
ExecCallbackSuccess(r) ==
    LET m == run[r].owner
        txtPath == txtPathOf(audioPath)
        found == Exists(fs, txtPath)
        text == IF found THEN Trim(fs[txtPath]) ELSE EmptyTranscript
        fs1 == IF found THEN Unlink(fs, txtPath) ELSE fs
        at70 == updateTranscribeProgress(modal[m], 70)
    IN IF Exists(fs1, audioPath)
       THEN /\ fs' = Unlink(fs1, audioPath)
            /\ modal' = [modal EXCEPT ![m] = updateTranscribeProgress(at70, 90)]
            /\ run' = [run EXCEPT ![r].transcription = text,
                                  ![r].sidecarRead = found,
                                  ![r].reported = @ \o <<70, 90>>,
                                  ![r].pc = "composing"]
       ELSE /\ fs' = fs1
            /\ modal' = [modal EXCEPT ![m] = at70]
            /\ run' = [run EXCEPT ![r].transcription = text,
                                  ![r].sidecarRead = found,
                                  ![r].reported = Append(@, 70),
                                  ![r].pc = "crashed"]

\* The callback exec() calls when the engine process has ended.
ExecCallback(r) ==
    /\ run[r].pc = "exited"
    /\ IF run[r].error THEN ExecCallbackError(r) ELSE ExecCallbackSuccess(r)
    /\ UNCHANGED <<settings, pureVars, basePath, modelPresent, notes, streams, timers>>

NoteName(m) == <<Today, modal[m].title>>

\* createMeetingNote, were progress 100 reported before vault.create settles.
createMeetingNote_CompleteBeforeCreate(r) ==
    /\ run[r].pc = "composing"
    /\ LET m == run[r].owner
       IN /\ modal' = [modal EXCEPT ![m] = updateTranscribeProgress(modal[m], 100)]
          /\ IF \E n \in notes : n.name = NoteName(m)
             THEN /\ run' = [run EXCEPT ![r].pc = "crashed",
                                        ![r].reported = Append(@, 100)]
                  /\ UNCHANGED notes
             ELSE /\ notes' = notes \cup {[name |-> NoteName(m), run |-> r,
                                           discussion |-> run[r].transcription]}
                  /\ run' = [run EXCEPT ![r].notice = "noteCreated", ![r].pc = "closing",
                                        ![r].reported = Append(@, 100)]
    /\ UNCHANGED <<settings, pureVars, basePath, modelPresent, fs, streams, timers>>

\* createMeetingNote after its first await, and the callback's tail: the note
\* is composed and vault.create is awaited; it rejects when the file exists
\* (an unhandled rejection of the callback).  Otherwise: Notice, progress 100,
\* setTimeout(close, 1000).
createMeetingNote(r) ==
    /\ run[r].pc = "composing"
    /\ LET m == run[r].owner
       IN IF \E n \in notes : n.name = NoteName(m)
          THEN /\ run' = [run EXCEPT ![r].pc = "crashed"]
               /\ UNCHANGED <<notes, modal>>
          ELSE /\ notes' = notes \cup {[name |-> NoteName(m), run |-> r,
                                        discussion |-> run[r].transcription]}
               /\ modal' = [modal EXCEPT ![m] = updateTranscribeProgress(modal[m], 100)]
               /\ run' = [run EXCEPT ![r].notice = "noteCreated", ![r].pc = "closing",
                                     ![r].reported = Append(@, 100)]
    /\ UNCHANGED <<settings, pureVars, basePath, modelPresent, fs, streams, timers>>

\* The one-second timer of the success path: this.close(), hence onClose.
CloseTimer(r) ==
    /\ run[r].pc = "closing"
    /\ onClose([run EXCEPT ![r].pc = "done"], run[r].owner)
    /\ UNCHANGED <<settings, pureVars, basePath, modelPresent, fs, notes, streams>>

\* requestAnimationFrame calls updateLevel of recorder r again.
AnimationFrame(r, level) ==
    /\ run[r].levelLoop = "scheduled"
    /\ LET m == run[r].owner
       IN /\ run' = [run EXCEPT ![r].levelLoop = updateLevel(modal[m])]
          /\ modal' = [modal EXCEPT ![m].micLevel = updateMicLevel(modal[m], level)]
    /\ UNCHANGED <<settings, pureVars, basePath, modelPresent, fs, notes, streams, timers>>

Next ==
    \/ \E m \in Modals : OpenModal(m)
    \/ \E m \in Modals, t \in Titles : EditTitle(m, t)
    \/ \E m \in Modals : toggleRecording(m)
    \/ \E m \in Modals, level \in Levels : GetUserMediaResolve(m, level)
    \/ \E m \in Modals : GetUserMediaReject(m)
    \/ \E m \in Modals : CloseModal(m)
    \/ \E r \in Recorders : RecorderStopEvent(r)
    \/ \E r \in Recorders, diskOk \in BOOLEAN : processRecording(r, diskOk)
    \/ \E r \in Recorders : EngineRead(r)
    \/ \E r \in Recorders, ok \in BOOLEAN, sidecar \in BOOLEAN : EngineExit(r, ok, sidecar)
    \/ \E r \in Recorders : ExecCallback(r)
    \/ \E r \in Recorders : createMeetingNote(r)
    \/ \E r \in Recorders : CloseTimer(r)
    \/ \E r \in Recorders, level \in Levels : AnimationFrame(r, level)

Spec == Init /\ [][Next]_vars

\* ------------------------------------------------------------------ claims
RunsOf(m) == {r \in Recorders : run[r].owner = m}

\* resetModal's target: the state the modal has before a recording.
ReadyState(md) ==
    /\ md.btnText = "start"
    /\ ~md.btnDisabled
    /\ ~md.titleDisabled
    /\ ~md.attendeesDisabled
    /\ md.status = "ready"
    /\ ~md.progressShown
    /\ ~md.isRecording

\* The exec callback of run r runs on an engine error.
EngineErrorHandled(r) == run[r].pc = "exited" /\ run[r].error /\ run'[r].pc # "exited"

\* C1: when the engine reports an error, the run composes and creates no
\* note, the failure is shown, and the modal is back in its ready state:
\* button enabled and labelled start, inputs enabled, status ready, progress
\* hidden, isRecording false.
C1_EngineErrorResetsToReady ==
    [][\A r \in Recorders :
          EngineErrorHandled(r) =>
              /\ run'[r].pc = "failed"
              /\ run'[r].notice = "transcriptionFailed"
              /\ notes' = notes
              /\ ReadyState(modal'[run[r].owner])]_vars

EngineInFlight(r) == run[r].pc \in {"spawned", "running"}

\* C2: within one modal at most one engine invocation is in flight at any
\* time.
C2_AtMostOneTranscriptionPerModal ==
    \A m \in Modals : Cardinality({r \in RunsOf(m) : EngineInFlight(r)}) <= 1

RunActive(r) ==
    run[r].pc \in {"stopping", "arrayBuffer", "spawned", "running", "exited", "composing"}

\* The modal of run r shows 'Processing...' with the record button disabled
\* and nothing of the modal is pending that could change it.
StuckProcessing(r) ==
    LET m == run[r].owner
    IN /\ run[r].pc = "crashed"
       /\ run[r].notice = "none"
       /\ modal[m].btnText = "processing"
       /\ modal[m].btnDisabled
       /\ modal[m].pendingStarts = 0
       /\ \A q \in RunsOf(m) : ~RunActive(q) /\ run[q].rec # "recording"

\* C3: a run that entered processing ends with the note created or with an
\* error reported and the modal reset; the modal never stays in
\* 'Processing...' with the button disabled and no error reported.
C3_NeverStuckProcessing == \A r \in Recorders : ~StuckProcessing(r)

\* C4: the file the engine is given with -f is the encoder's output (16 kHz
\* mono 16-bit PCM WAV), never the raw captured blob.
C4_EngineInputIsEncoderOutput ==
    \A r \in Recorders :
        run[r].engineInput.present =>
            run[r].engineInput.format = convertBlobToWav(run[r].engineInput.chunks).format

\* C5: a recording ended by closing the modal is discarded: no temp audio
\* file is written for it, the engine is not invoked and no note is created.
C5_CloseDiscardsRecording ==
    \A r \in Recorders :
        run[r].byClose =>
            /\ run[r].pc \notin {"spawned", "running", "exited", "composing",
                                 "closing", "done", "failed"}
            /\ \A n \in notes : n.run # r

\* C6: when none of a modal's recorders is recording, no microphone stream
\* acquired by that modal is still held.
C6_StreamReleasedWhenNotRecording ==
    \A r \in streams :
        \E q \in RunsOf(run[r].owner) : run[q].rec = "recording"

\* The exec callback of run r goes on to createMeetingNote.
EntersCreateMeetingNote(r) == run[r].pc = "exited" /\ run'[r].pc = "composing"

\* C7: when createMeetingNote is entered after a successful engine exit,
\* neither the input audio file nor the engine's sidecar exists.
C7_TempFilesGoneBeforeNote ==
    [][\A r \in Recorders :
          EntersCreateMeetingNote(r) =>
              /\ ~Exists(fs', audioPath)
              /\ ~Exists(fs', engineSidecarPath(audioPath))]_vars

\* The step in which run r ends as a failure (model missing or engine error).
RunFails(r) == run[r].pc # "failed" /\ run'[r].pc = "failed"

\* C8 (as claimed): once a run has ended in failure, the temp audio file no
\* longer exists.
C8_TempAudioDeletedOnFailure ==
    [][\A r \in Recorders : RunFails(r) => ~Exists(fs', audioPath)]_vars

\* C8 (amended): a failing run deletes nothing.  When the model file is
\* missing, the temp audio file processRecording just wrote is on disk when
\* the run ends; when the engine reports an error, the callback leaves the
\* temp directory as it found it.
C8_FailureLeavesTempAudio ==
    [][\A r \in Recorders :
          RunFails(r) =>
              /\ run[r].pc = "arrayBuffer" =>
                     /\ Exists(fs', audioPath)
                     /\ fs'[audioPath] = TempAudioContent(run[r].blob)
              /\ run[r].pc = "exited" => fs' = fs]_vars

\* C8 witness: a run ended on an engine error and its temp audio is on disk.
C8_Witness ==
    \E r \in Recorders :
        /\ run[r].pc = "failed"
        /\ run[r].notice = "transcriptionFailed"
        /\ Exists(fs, audioPath)
        /\ fs[audioPath] = TempAudioContent(run[r].blob)

\* Every modal has made at most one recording.
OneRecordingPerModal == \A m \in Modals : Cardinality(RunsOf(m)) <= 1

\* C9: the transcript placed in a note comes from that note's own recording,
\* here for runs of different modals: one recording per modal.
C9_NoteTranscriptIsOwnRecording ==
    OneRecordingPerModal =>
        \A n \in notes :
            n.discussion # EmptyTranscript => n.discussion = run[n.run].blob

RunEnded(r) == run[r].pc \in {"closing", "done", "failed", "crashed"}

\* C10: a run whose engine exited with status 0 and whose sidecar did not
\* exist is not treated as a failure: its transcript is empty, the modal is
\* not reset for it, and it creates a note with an empty Discussion.
C10_MissingSidecarStillCreatesNote ==
    \A r \in Recorders :
        (OneRecordingPerModal /\ RunEnded(r) /\ ~run[r].error /\ run[r].engineInput.present /\ ~run[r].sidecarRead) =>
            /\ run[r].transcription = EmptyTranscript
            /\ run[r].notice = "noteCreated"
            /\ \E n \in notes : n.run = r /\ n.discussion = EmptyTranscript

\* ---------------------------------------------- the command line on its own
AllSettings ==
    {[DEFAULT_SETTINGS EXCEPT !.whisperPath = w, !.modelSize = ms, !.language = l] :
        w \in WhisperPaths, ms \in ModelSizes, l \in Languages}

InitCommand ==
    /\ basePath \in BasePaths
    /\ modelPresent = TRUE
    /\ fs = << >>
    /\ notes = {}
    /\ modal = [m \in Modals |-> NewModal]
    /\ run = [r \in Recorders |-> NewRun]
    /\ streams = {}
    /\ timers = {}
    /\ settings \in AllSettings
    /\ inText = <<>>
    /\ corpus = <<>>
    /\ noteMeta = NoMeta
    /\ audioBuffer = NoAudio
    /\ result = NoResult

\* transcribeAudio builds the command from the settings and the two paths.
BuildCommand ==
    /\ result = NoResult
    /\ result' = [fn |-> "command",
                  words |-> command(settings,
                                    modelPathOf(basePath, settings.modelSize),
                                    audioPath)]
    /\ UNCHANGED <<settings, inText, corpus, noteMeta, audioBuffer, basePath, modelPresent, fs, notes, modal,
                   run, streams, timers>>

NextCommand == BuildCommand

SpecCommand == InitCommand /\ [][NextCommand]_vars

\* The exec() of run r has been issued.
ExecIssued(r) == run[r].pc \in {"spawned", "running"}

\* C11: the engine is spawned only after the checks have passed: exec() is
\* not issued while the configured executable path is empty or does not
\* resolve (nor without the model file or the input audio file).
C11_NoSpawnWithoutExecutable ==
    [][\A r \in Recorders :
          (~ExecIssued(r) /\ ExecIssued(r)') =>
              /\ Resolvable(settings.whisperPath)
              /\ modelPresent
              /\ Exists(fs', audioPath)]_vars

IndexOfWord(ws, w) ==
    IF \E i \in 1..Len(ws) : ws[i] = Word(w)
    THEN CHOOSE i \in 1..Len(ws) : ws[i] = Word(w) /\ \A j \in 1..(i - 1) : ws[j] # Word(w)
    ELSE 0

\* C12: the command has '-l <language>' exactly when the language is not
\* 'auto', and always '-m <modelPath>', then '-f <audioPath>', then
\* '--output-txt', in that order.
C12_CommandLine ==
    result.fn = "command" =>
        LET ws == result.words
            m == IndexOfWord(ws, "-m")
            l == IndexOfWord(ws, "-l")
            f == IndexOfWord(ws, "-f")
            o == IndexOfWord(ws, "--output-txt")
        IN /\ (l # 0) = (settings.language # "auto")
           /\ l # 0 => ws[l + 1] = Word(settings.language)
           /\ m # 0 /\ f # 0 /\ o # 0
           /\ m < f /\ f + 1 < o
           /\ ws[m + 1] = PathWord(modelPathOf(basePath, settings.modelSize))
           /\ ws[f + 1] = PathWord(audioPath)

\* C12 witness: a command built for a configured language.
C12_Witness ==
    /\ result.fn = "command"
    /\ settings.language = "de"
    /\ IndexOfWord(result.words, "-l") # 0

\* ------------------------------------------------------------- texts
\* A text is a sequence of one-character strings, so that matching,
\* trimming, length and substring tests are computed character by character.
UpperCase == <<"A","B","C","D","E","F","G","H","I","J","K","L","M","N","O","P","Q","R","S","T","U","V","W","X","Y","Z">>
LowerCase == <<"a","b","c","d","e","f","g","h","i","j","k","l","m","n","o","p","q","r","s","t","u","v","w","x","y","z">>

LowerOf ==
    [c \in {UpperCase[i] : i \in 1..Len(UpperCase)} |->
        LowerCase[CHOOSE i \in 1..Len(UpperCase) : UpperCase[i] = c]]

toLowerCaseChar(c) == IF c \in DOMAIN LowerOf THEN LowerOf[c] ELSE c

toLowerCase(s) == [i \in 1..Len(s) |-> toLowerCaseChar(s[i])]

\* \s of the regular expressions and of String.trim
IsSpace(c) == c \in {" ", "\n", "\t"}

\* [^.!?\n]
InClass(c) == c \notin {".", "!", "?", "\n"}

Min(a, b) == IF a < b THEN a ELSE b

RECURSIVE SpaceRun(_, _)
\* number of consecutive \s characters of s from position i on
SpaceRun(s, i) ==
    IF i <= Len(s) /\ IsSpace(s[i]) THEN 1 + SpaceRun(s, i + 1) ELSE 0

\* number of consecutive [^.!?\n] characters of s from position i on, at most max
ClassRun(s, i, max) ==
    LET stop == CHOOSE j \in i..(Len(s) + 1) :
                    /\ j = Len(s) + 1 \/ ~InClass(s[j])
                    /\ \A k \in i..(j - 1) : InClass(s[k])
    IN  Min(max, stop - i)

\* The literal lit stands in s at position i.  The patterns carry the flag
\* i (case is ignored): the literals are written in lower case below and
\* the characters of the text are lowercased for the comparison.
LiteralAt(s, i, lit) ==
    /\ i + Len(lit) - 1 <= Len(s)
    /\ \A k \in 1..Len(lit) : toLowerCaseChar(s[i + k - 1]) = lit[k]

RECURSIVE SpaceRunBack(_, _)
\* number of consecutive \s characters of s from position i backwards
SpaceRunBack(s, i) ==
    IF i >= 1 /\ IsSpace(s[i]) THEN 1 + SpaceRunBack(s, i - 1) ELSE 0

\* String.trim
trim(s) ==
    IF SpaceRun(s, 1) = Len(s) THEN <<>>
    ELSE SubSeq(s, 1 + SpaceRun(s, 1), Len(s) - SpaceRunBack(s, Len(s)))

\* Array.includes / String.includes
includes(list, item) == \E k \in 1..Len(list) : list[k] = item

IsSubstring(needle, s) ==
    \E i \in 1..(Len(s) - Len(needle) + 1) : SubSeq(s, i, i + Len(needle) - 1) = needle

\* ------------------------------------------------- regular expressions
\* Every pattern of the two extractors has the shape
\*   group (\s+ group)*  :?  \s+ or \s*  ([^.!?\n]{capMin,capMax})
\* where a group is an alternation of literals.  "capped" is FALSE for the
\* quantifier + (no upper limit).
actionPatterns == <<
    [groups |-> << <<<<"w","i","l","l">>,
        <<"s","h","o","u","l","d">>,
        <<"n","e","e","d"," ","t","o">>,
        <<"m","u","s","t">>,
        <<"h","a","s"," ","t","o">>,
        <<"g","o","n","n","a">>>> >>,
     colon |-> FALSE, wsMin |-> 1, capMin |-> 10, capped |-> TRUE, capMax |-> 100],
    [groups |-> << <<<<"a","c","t","i","o","n"," ","i","t","e","m">>>> >>,
     colon |-> TRUE, wsMin |-> 0, capMin |-> 1, capped |-> FALSE, capMax |-> 0],
    [groups |-> << <<<<"t","o","d","o">>>> >>,
     colon |-> TRUE, wsMin |-> 0, capMin |-> 1, capped |-> FALSE, capMax |-> 0],
    [groups |-> << <<<<"[","a","c","t","i","o","n","]">>>> >>,
     colon |-> TRUE, wsMin |-> 0, capMin |-> 1, capped |-> FALSE, capMax |-> 0] >>

decisionPatterns == <<
    [groups |-> << <<<<"w","e">>,
        <<"t","h","e","y">>,
        <<"t","e","a","m">>>>,
        <<<<"d","e","c","i","d","e","d">>,
        <<"a","g","r","e","e","d">>,
        <<"c","o","n","c","l","u","d","e","d">>>>,
        <<<<"t","o">>,
        <<"t","h","a","t">>,
        <<"o","n">>>> >>,
     colon |-> FALSE, wsMin |-> 1, capMin |-> 10, capped |-> TRUE, capMax |-> 150],
    [groups |-> << <<<<"d","e","c","i","s","i","o","n">>>> >>,
     colon |-> TRUE, wsMin |-> 0, capMin |-> 1, capped |-> FALSE, capMax |-> 0],
    [groups |-> << <<<<"a","g","r","e","e","d"," ","o","n">>>> >>,
     colon |-> TRUE, wsMin |-> 0, capMin |-> 1, capped |-> FALSE, capMax |-> 0] >>

NoMatch == [ok |-> FALSE, from |-> 0, to |-> 0]

RECURSIVE GroupsEnd(_, _, _, _)
\* Position after the groups g, g+1, ... matched from position i on, with
\* \s+ between two groups; 0 when they do not match.  The alternatives of a
\* group never fit at the same position, and a literal never starts with a
\* space, so there is nothing to backtrack into here.
GroupsEnd(s, i, groups, g) ==
    IF \A a \in 1..Len(groups[g]) : ~LiteralAt(s, i, groups[g][a]) THEN 0
    ELSE LET a == CHOOSE x \in 1..Len(groups[g]) : LiteralAt(s, i, groups[g][x])
             j == i + Len(groups[g][a])
         IN  IF g = Len(groups) THEN j
             ELSE IF SpaceRun(s, j) = 0 THEN 0
             ELSE GroupsEnd(s, j + SpaceRun(s, j), groups, g + 1)

CapLimit(p, s) == IF p.capped THEN p.capMax ELSE Len(s)

\* \s+ or \s* followed by the capture group, from position q on.  The space
\* quantifier is greedy and gives characters back to the capture group when
\* the group would otherwise be too short.
CaptureFrom(s, p, q) ==
    LET n == SpaceRun(s, q)
        ks == {k \in p.wsMin..n : ClassRun(s, q + k, CapLimit(p, s)) >= p.capMin}
    IN  IF ks = {} THEN NoMatch
        ELSE LET k == CHOOSE x \in ks : \A y \in ks : x >= y
             IN  [ok |-> TRUE, from |-> q + k,
                  to |-> q + k + ClassRun(s, q + k, CapLimit(p, s)) - 1]

\* one attempt of the pattern p at position i: the captured group [from, to]
MatchAt(s, p, i) ==
    LET j == GroupsEnd(s, i, p.groups, 1)
    IN  IF j = 0 THEN NoMatch
        ELSE IF p.colon /\ j <= Len(s) /\ s[j] = ":" /\ CaptureFrom(s, p, j + 1).ok
             THEN CaptureFrom(s, p, j + 1)
        ELSE CaptureFrom(s, p, j)

\* the positions where an attempt of the pattern p succeeds
Starts(s, p) == {i \in 1..Len(s) : MatchAt(s, p, i).ok}

RECURSIVE scan(_, _, _, _)
scan(s, p, starts, i) ==
    LET next == {j \in starts : j >= i}
    IN  IF next = {} THEN <<>>
        ELSE LET j == CHOOSE x \in next : \A y \in next : x <= y
             IN  <<MatchAt(s, p, j)>> \o scan(s, p, starts, MatchAt(s, p, j).to + 1)

\* String.matchAll with flag g: the leftmost match, then on from its end
matchAll(s, p) == scan(s, p, Starts(s, p), 1)

\* ------------------------------------------------------- the extractors
ActionBullet == <<"-"," ","["," ","]"," ">>
DecisionBullet == <<"-"," ">>

RECURSIVE pushMatches(_, _, _, _, _)
\* the for-of loop over the matches ms[k], ms[k+1], ... of one pattern
pushMatches(list, s, ms, k, bullet) ==
    IF k > Len(ms) THEN list
    ELSE LET item == trim(SubSeq(s, ms[k].from, ms[k].to))
         IN  pushMatches(IF Len(item) > 10 /\ ~includes(list, item)
                         THEN Append(list, bullet \o item) ELSE list,
                         s, ms, k + 1, bullet)

RECURSIVE forEach_LastPatternFirst(_, _, _, _, _)
forEach_LastPatternFirst(list, s, patterns, n, bullet) ==
    IF n > Len(patterns) THEN list
    ELSE pushMatches(forEach_LastPatternFirst(list, s, patterns, n + 1, bullet),
                     s, matchAll(s, patterns[n]), 1, bullet)

RECURSIVE forEach(_, _, _, _, _)
\* patterns.forEach(pattern => ...), from the n-th pattern on
forEach(list, s, patterns, n, bullet) ==
    IF n > Len(patterns) THEN list
    ELSE forEach(pushMatches(list, s, matchAll(s, patterns[n]), 1, bullet),
                 s, patterns, n + 1, bullet)

\* Array.slice(0, n)
slice(list, n) == SubSeq(list, 1, Min(n, Len(list)))

pushedActionItems(text) == forEach(<<>>, text, actionPatterns, 1, ActionBullet)

extractActionItems_SliceOneMore(text) == slice(pushedActionItems(text), 11)

extractActionItems(text) == slice(pushedActionItems(text), 10)

pushedDecisions(text) == forEach(<<>>, text, decisionPatterns, 1, DecisionBullet)

extractDecisions(text) == slice(pushedDecisions(text), 8)

\* ------------------------------------------- extractor inputs and calls
MaxBlocks == 2      \* sentences of a transcript after its opening
MaxRepeat == 10     \* times the opening sentence of a transcript is said

Blocks == {
    <<"W","e"," ","w","i","l","l"," ","n","e","e","d"," ","t","o"," ","f","i","x"," ","t","h","e"," ","t","e","s","t","s","."," ">>,
    <<"W","e"," ","d","e","c","i","d","e","d"," ","t","o"," ","s","h","i","p"," ","t","h","e"," ","b","e","t","a","."," ">>,
    <<"a","c","t","i","o","n"," ","i","t","e","m",":"," ","c","a","l","l"," ","B","o","b","b","y","."," ">> }

RepeatBlocks == {
    <<"T","O","D","O",":"," ","c","a","l","l"," ","t","h","e"," ","v","e","n","d","o","r","."," ">>,
    <<"D","e","c","i","s","i","o","n",":"," ","h","i","r","e"," ","t","w","o"," ","d","e","v","s","\n">>,
    <<"w","e"," ","a","g","r","e","e","d"," ","o","n"," ","i","t"," ","a","n","d"," ">> }

RECURSIVE Repeat(_, _)
Repeat(b, k) == IF k = 0 THEN <<>> ELSE b \o Repeat(b, k - 1)

RECURSIVE Concat(_)
Concat(ss) == IF ss = <<>> THEN <<>> ELSE Head(ss) \o Concat(Tail(ss))

BlockSeqs == UNION {[1..n -> Blocks] : n \in 0..MaxBlocks}

ExtractTexts ==
    {Repeat(b, k) \o Concat(ss) : b \in RepeatBlocks, k \in 0..MaxRepeat, ss \in BlockSeqs}

InitExtract ==
    /\ basePath = <<"/vault">>
    /\ modelPresent = TRUE
    /\ fs = << >>
    /\ notes = {}
    /\ modal = [m \in Modals |-> NewModal]
    /\ run = [r \in Recorders |-> NewRun]
    /\ streams = {}
    /\ timers = {}
    /\ settings = DEFAULT_SETTINGS
    /\ inText \in ExtractTexts
    /\ corpus = <<>>
    /\ noteMeta = NoMeta
    /\ audioBuffer = NoAudio
    /\ result = NoResult

CallExtractActionItems ==
    /\ result = NoResult
    /\ result' = [fn |-> "extractActionItems", items |-> extractActionItems(inText)]
    /\ UNCHANGED <<settings, inText, corpus, noteMeta, audioBuffer, basePath, modelPresent, fs, notes, modal,
                   run, streams, timers>>

CallExtractDecisions ==
    /\ result = NoResult
    /\ result' = [fn |-> "extractDecisions", items |-> extractDecisions(inText)]
    /\ UNCHANGED <<settings, inText, corpus, noteMeta, audioBuffer, basePath, modelPresent, fs, notes, modal,
                   run, streams, timers>>

NextExtract ==
    \/ CallExtractActionItems
    \/ CallExtractDecisions

SpecExtract == InitExtract /\ [][NextExtract]_vars

RECURSIVE Lines(_)
\* every entry of a list on a line of its own
Lines(list) == IF list = <<>> THEN <<>> ELSE <<"\n">> \o Head(list) \o Lines(Tail(list))

\* The extractor is called on a text and then again on the text followed by
\* its own output.
ReExtractActionItems ==
    /\ result = NoResult
    /\ result' = [fn |-> "reExtractActionItems", first |-> extractActionItems(inText),
                  items |-> extractActionItems(inText \o Lines(extractActionItems(inText)))]
    /\ UNCHANGED <<settings, inText, corpus, noteMeta, audioBuffer, basePath, modelPresent, fs, notes, modal,
                   run, streams, timers>>

ReExtractDecisions ==
    /\ result = NoResult
    /\ result' = [fn |-> "reExtractDecisions", first |-> extractDecisions(inText),
                  items |-> extractDecisions(inText \o Lines(extractDecisions(inText)))]
    /\ UNCHANGED <<settings, inText, corpus, noteMeta, audioBuffer, basePath, modelPresent, fs, notes, modal,
                   run, streams, timers>>

NextReExtract ==
    \/ ReExtractActionItems
    \/ ReExtractDecisions

SpecReExtract == InitExtract /\ [][NextReExtract]_vars

\* C13: extractActionItems and extractDecisions never return two textually
\* identical entries; a capture matched more than once appears exactly once.
C13_NoIdenticalEntries ==
    result.fn \in {"extractActionItems", "extractDecisions"} =>
        \A i, j \in 1..Len(result.items) : i # j => result.items[i] # result.items[j]

\* C14: extractActionItems returns at most 10 entries and extractDecisions
\* at most 8; the surplus is dropped without an error and the entries kept
\* are the first ones of the list in output order.
C14_CapsKeepFirstEntries ==
    /\ result.fn = "extractActionItems" =>
          /\ Len(result.items) <= 10
          /\ Len(result.items) = Min(10, Len(pushedActionItems(inText)))
          /\ result.items = SubSeq(pushedActionItems(inText), 1, Len(result.items))
    /\ result.fn = "extractDecisions" =>
          /\ Len(result.items) <= 8
          /\ Len(result.items) = Min(8, Len(pushedDecisions(inText)))
          /\ result.items = SubSeq(pushedDecisions(inText), 1, Len(result.items))

\* C14 witness: more than ten action items were pushed, ten were returned,
\* and the first one dropped differs from the first one kept.
C14_Witness ==
    /\ result.fn = "extractActionItems"
    /\ Len(pushedActionItems(inText)) > 10
    /\ Len(result.items) = 10
    /\ pushedActionItems(inText)[11] # result.items[1]

\* the trimmed captures of the matches ms, in the order of their position
CapturedOf(s, ms) == [k \in 1..Len(ms) |-> trim(SubSeq(s, ms[k].from, ms[k].to))]

Captured(s, p) == CapturedOf(s, matchAll(s, p))

LongEnough(item) == Len(item) > 10

RECURSIVE Candidates(_, _, _, _)
\* every capture that passes the length test, as an entry: those of the
\* pattern n first, by position, then those of the later patterns
Candidates(s, patterns, n, bullet) ==
    IF n > Len(patterns) THEN <<>>
    ELSE LET own == SelectSeq(Captured(s, patterns[n]), LongEnough)
         IN  [k \in 1..Len(own) |-> bullet \o own[k]]
             \o Candidates(s, patterns, n + 1, bullet)

RECURSIVE IsSubsequence(_, _)
\* a is b with some elements left out
IsSubsequence(a, b) ==
    IF a = <<>> THEN TRUE
    ELSE IF b = <<>> THEN FALSE
    ELSE IF Head(a) = Head(b) THEN IsSubsequence(Tail(a), Tail(b))
    ELSE IsSubsequence(a, Tail(b))

\* C15: the entries are ordered by pattern family first and by position in
\* the text second: the result is a selection, in order, from the accepted
\* matches of the first pattern by position, then those of the second, ...
C15_PatternFamilyThenPosition ==
    /\ result.fn = "extractActionItems" =>
          IsSubsequence(result.items, Candidates(inText, actionPatterns, 1, ActionBullet))
    /\ result.fn = "extractDecisions" =>
          IsSubsequence(result.items, Candidates(inText, decisionPatterns, 1, DecisionBullet))

\* C15 witness: a TODO item stands in the text before a "will" item, and
\* both were returned.
C15_Witness ==
    /\ result.fn = "extractActionItems"
    /\ Len(result.items) >= 2
    /\ \E a \in 1..Len(matchAll(inText, actionPatterns[1])),
          b \in 1..Len(matchAll(inText, actionPatterns[3])) :
            /\ matchAll(inText, actionPatterns[3])[b].from
                 < matchAll(inText, actionPatterns[1])[a].from
            /\ LongEnough(Captured(inText, actionPatterns[1])[a])
            /\ LongEnough(Captured(inText, actionPatterns[3])[b])
            /\ Captured(inText, actionPatterns[1])[a] # Captured(inText, actionPatterns[3])[b]

\* C16: every entry of extractDecisions has a decision text (the entry
\* without its bullet) longer than 10 and shorter than 150 characters.
C16_DecisionLengthBounded ==
    result.fn = "extractDecisions" =>
        \A k \in 1..Len(result.items) :
            /\ Len(result.items[k]) - Len(DecisionBullet) > 10
            /\ Len(result.items[k]) - Len(DecisionBullet) < 150

\* C17: extracting again from the text followed by the lines of the first
\* result gives the first result again, for both extractors.
C17_ReExtractionIdempotent ==
    result.fn \in {"reExtractActionItems", "reExtractDecisions"} =>
        result.items = result.first

\* ------------------------------------------------------ related notes
RECURSIVE split(_)
\* String.split(/\s+/): the pieces between the runs of white space; a text
\* without white space (the empty text too) is one piece
split(s) ==
    IF \A i \in 1..Len(s) : ~IsSpace(s[i]) THEN <<s>>
    ELSE LET i == CHOOSE x \in 1..Len(s) :
                      IsSpace(s[x]) /\ \A y \in 1..(x - 1) : ~IsSpace(s[y])
         IN  <<SubSeq(s, 1, i - 1)>> \o split(SubSeq(s, i + SpaceRun(s, i), Len(s)))

\* `- [[${file.basename}]]`
LinkOf(basename) == <<"-"," ","[","[">> \o basename \o <<"]","]">>

RECURSIVE forFiles(_, _, _, _)
\* for (const file of files), from the k-th file on; a file is its basename
forFiles(links, words, files, k) ==
    IF k > Len(files) THEN links
    ELSE LET basename == toLowerCase(files[k])
         IN  forFiles(IF /\ Len(basename) >= 3
                         /\ \E w \in 1..Len(words) :
                               \/ IsSubstring(basename, words[w])
                               \/ IsSubstring(words[w], basename)
                         /\ ~includes(links, files[k])
                      THEN Append(links, LinkOf(files[k])) ELSE links,
                      words, files, k + 1)

pushedLinks(text, files) == forFiles(<<>>, split(toLowerCase(text)), files, 1)

findRelatedNotes(text, files) == slice(pushedLinks(text, files), 10)

MaxFiles == 3       \* markdown files in the vault

\* basenames of vault files; two files in different folders may share one
Basenames == {
    <<"Q","A">>,
    <<"P","l","a","n">>,
    <<"R","o","a","d","m","a","p">>,
    <<"B","u","d","g","e","t">> }

Corpora == UNION {[1..n -> Basenames] : n \in 0..MaxFiles}

LinkTexts == {
    <<>>,
    <<"Q","A"," ","p","l","a","n","n","i","n","g">>,
    <<"t","h","e"," ","r","o","a","d"," ","a","h","e","a","d">>,
    <<"P","l","a","n"," ","t","h","e"," ","b","u","d","g","e","t">> }

InitLinks ==
    /\ basePath = <<"/vault">>
    /\ modelPresent = TRUE
    /\ fs = << >>
    /\ notes = {}
    /\ modal = [m \in Modals |-> NewModal]
    /\ run = [r \in Recorders |-> NewRun]
    /\ streams = {}
    /\ timers = {}
    /\ settings = DEFAULT_SETTINGS
    /\ inText \in LinkTexts
    /\ corpus \in Corpora
    /\ noteMeta = NoMeta
    /\ audioBuffer = NoAudio
    /\ result = NoResult

CallFindRelatedNotes ==
    /\ result = NoResult
    /\ result' = [fn |-> "findRelatedNotes", items |-> findRelatedNotes(inText, corpus)]
    /\ UNCHANGED <<settings, inText, corpus, noteMeta, audioBuffer, basePath, modelPresent, fs, notes, modal,
                   run, streams, timers>>

NextLinks == CallFindRelatedNotes

SpecLinks == InitLinks /\ [][NextLinks]_vars

\* text[i..j] is a word of the text: a maximal run of characters that are
\* not white space
IsToken(text, i, j) ==
    /\ i <= j
    /\ \A k \in i..j : ~IsSpace(text[k])
    /\ i = 1 \/ IsSpace(text[i - 1])
    /\ j = Len(text) \/ IsSpace(text[j + 1])

Referenced(name, text) ==
    /\ Len(name) >= 3
    /\ \E i \in 1..Len(text), j \in 1..Len(text) :
          /\ IsToken(text, i, j)
          /\ \/ IsSubstring(toLowerCase(name), SubSeq(toLowerCase(text), i, j))
             \/ IsSubstring(SubSeq(toLowerCase(text), i, j), toLowerCase(name))

\* C18: before the cap, a note title is linked exactly when its lowercased
\* name has at least 3 characters and some lowercased word of the transcript
\* contains the name or is contained in it; a shorter title is never linked.
C18_LinkedExactlyWhenReferenced ==
    result.fn = "findRelatedNotes" =>
        \A k \in 1..Len(corpus) :
            includes(pushedLinks(inText, corpus), LinkOf(corpus[k]))
                <=> Referenced(corpus[k], inText)

\* C19: no title is linked twice (two files of one basename give one
\* link), the links are in corpus order, and there are at most 10 of them;
\* stated for the transcripts that have words.
C19_LinksUniqueOrderedCapped ==
    (result.fn = "findRelatedNotes" /\ inText # <<>>) =>
        /\ \A i, j \in 1..Len(result.items) : i # j => result.items[i] # result.items[j]
        /\ IsSubsequence(result.items, [k \in 1..Len(corpus) |-> LinkOf(corpus[k])])
        /\ Len(result.items) <= 10

\* ------------------------------------------------------ the meeting note
MEETING_TEMPLATE ==
    <<"-","-","-","\n">>
    \o <<"d","a","t","e",":"," ","{","{","d","a","t","e","}","}","\n">>
    \o <<"t","i","m","e",":"," ","{","{","t","i","m","e","}","}","\n">>
    \o <<"a","t","t","e","n","d","e","e","s",":"," ","{","{","a","t","t","e","n","d","e","e","s","}","}","\n">>
    \o <<"d","u","r","a","t","i","o","n",":"," ","{","{","d","u","r","a","t","i","o","n","}","}","\n">>
    \o <<"t","a","g","s",":"," ","m","e","e","t","i","n","g","\n">>
    \o <<"-","-","-","\n">>
    \o <<"\n">>
    \o <<"#"," ","{","{","t","i","t","l","e","}","}","\n">>
    \o <<"\n">>
    \o <<"#","#"," ","A","t","t","e","n","d","e","e","s","\n">>
    \o <<"{","{","a","t","t","e","n","d","e","e","s","}","}","\n">>
    \o <<"\n">>
    \o <<"#","#"," ","A","g","e","n","d","a","\n">>
    \o <<"\n">>
    \o <<"\n">>
    \o <<"#","#"," ","D","i","s","c","u","s","s","i","o","n","\n">>
    \o <<"{","{","t","r","a","n","s","c","r","i","p","t","i","o","n","}","}","\n">>
    \o <<"\n">>
    \o <<"#","#"," ","A","c","t","i","o","n"," ","I","t","e","m","s","\n">>
    \o <<"-"," ","["," ","]","\n">>
    \o <<"\n">>
    \o <<"#","#"," ","D","e","c","i","s","i","o","n","s"," ","M","a","d","e","\n">>
    \o <<"\n">>
    \o <<"\n">>
    \o <<"#","#"," ","F","o","l","l","o","w","-","u","p"," ","Q","u","e","s","t","i","o","n","s","\n">>
    \o <<"\n">>
    \o <<"\n">>
    \o <<"#","#"," ","R","e","l","a","t","e","d"," ","N","o","t","e","s","\n">>
    \o <<"\n">>

\* pat stands in s at position i, character for character
StartsAt(s, i, pat) ==
    /\ i + Len(pat) - 1 <= Len(s)
    /\ \A k \in 1..Len(pat) : s[i + k - 1] = pat[k]

\* String.indexOf from position from on; 0 when pat does not occur
IndexOf(s, pat, from) ==
    IF \E i \in from..Len(s) : StartsAt(s, i, pat)
    THEN CHOOSE i \in from..Len(s) :
            StartsAt(s, i, pat) /\ \A j \in from..(i - 1) : ~StartsAt(s, j, pat)
    ELSE 0

RECURSIVE GetSubstitution(_, _, _, _, _)
\* The replacement text of String.replace: $$ gives $, $& the matched text,
\* $` the text before the match and $' the text after it; the patterns used
\* here have no capture groups, so $1, $2, ... stay as they are.
GetSubstitution(repl, k, matched, before, after) ==
    IF k > Len(repl) THEN <<>>
    ELSE IF repl[k] = "$" /\ k < Len(repl) /\ repl[k + 1] \in {"$", "&", "`", "'"}
         THEN (CASE repl[k + 1] = "$" -> <<"$">>
                 [] repl[k + 1] = "&" -> matched
                 [] repl[k + 1] = "`" -> before
                 [] repl[k + 1] = "'" -> after)
              \o GetSubstitution(repl, k + 2, matched, before, after)
    ELSE <<repl[k]>> \o GetSubstitution(repl, k + 1, matched, before, after)

\* String.replace(pat, repl) with a string pattern: the first occurrence only
replace(s, pat, repl) ==
    IF IndexOf(s, pat, 1) = 0 THEN s
    ELSE SubSeq(s, 1, IndexOf(s, pat, 1) - 1)
         \o GetSubstitution(repl, 1, pat,
                            SubSeq(s, 1, IndexOf(s, pat, 1) - 1),
                            SubSeq(s, IndexOf(s, pat, 1) + Len(pat), Len(s)))
         \o SubSeq(s, IndexOf(s, pat, 1) + Len(pat), Len(s))

RECURSIVE replaceFrom(_, _, _, _)
\* the occurrences of pat in s from position from on, each replaced; the text
\* put in is not searched again
replaceFrom(s, pat, repl, from) ==
    IF IndexOf(s, pat, from) = 0 THEN SubSeq(s, from, Len(s))
    ELSE SubSeq(s, from, IndexOf(s, pat, from) - 1)
         \o GetSubstitution(repl, 1, pat,
                            SubSeq(s, 1, IndexOf(s, pat, from) - 1),
                            SubSeq(s, IndexOf(s, pat, from) + Len(pat), Len(s)))
         \o replaceFrom(s, pat, repl, IndexOf(s, pat, from) + Len(pat))

\* String.replace(/pat/g, repl) for a pattern that is one literal
replaceAll(s, pat, repl) == replaceFrom(s, pat, repl, 1)

RECURSIVE join(_, _)
\* Array.join(sep)
join(list, sep) ==
    IF list = <<>> THEN <<>>
    ELSE IF Len(list) = 1 THEN Head(list)
    ELSE Head(list) \o sep \o join(Tail(list), sep)

ActionItemsAnchor == <<"#","#"," ","A","c","t","i","o","n"," ","I","t","e","m","s","\n","-"," ","["," ","]"," ">>
ActionItemsHead == <<"#","#"," ","A","c","t","i","o","n"," ","I","t","e","m","s","\n">>
DecisionsAnchor == <<"#","#"," ","D","e","c","i","s","i","o","n","s"," ","M","a","d","e","\n","\n">>
DecisionsHead == <<"#","#"," ","D","e","c","i","s","i","o","n","s"," ","M","a","d","e","\n">>
RelatedNotesAnchor == <<"#","#"," ","R","e","l","a","t","e","d"," ","N","o","t","e","s","\n","\n">>
RelatedNotesHead == <<"#","#"," ","R","e","l","a","t","e","d"," ","N","o","t","e","s","\n">>

\* the template with its placeholders filled in
filledTemplate(meta, transcription) ==
    replaceAll(
      replaceAll(
        replaceAll(
          replaceAll(
            replaceAll(
              replaceAll(MEETING_TEMPLATE, <<"{","{","d","a","t","e","}","}">>, meta.date),
              <<"{","{","t","i","m","e","}","}">>, meta.time),
            <<"{","{","t","i","t","l","e","}","}">>, meta.title),
          <<"{","{","a","t","t","e","n","d","e","e","s","}","}">>, meta.attendees),
        <<"{","{","d","u","r","a","t","i","o","n","}","}">>, meta.duration),
      <<"{","{","t","r","a","n","s","c","r","i","p","t","i","o","n","}","}">>, transcription)

withActionItems(st, content, actionItems) ==
    IF st.autoExtractActionItems /\ Len(actionItems) > 0
    THEN replace(content, ActionItemsAnchor, ActionItemsHead \o join(actionItems, <<"\n">>))
    ELSE content

\* withDecisions, were the autoDetectDecisions setting not looked at
withDecisions_IgnoringSetting(st, content, decisions) ==
    IF Len(decisions) > 0
    THEN replace(content, DecisionsAnchor,
                 DecisionsHead \o join(decisions, <<"\n">>) \o <<"\n", "\n">>)
    ELSE content

withDecisions(st, content, decisions) ==
    IF st.autoDetectDecisions /\ Len(decisions) > 0
    THEN replace(content, DecisionsAnchor,
                 DecisionsHead \o join(decisions, <<"\n">>) \o <<"\n", "\n">>)
    ELSE content

withLinks(st, content, links) ==
    IF st.autoLinkNotes /\ Len(links) > 0
    THEN replace(content, RelatedNotesAnchor,
                 RelatedNotesHead \o join(links, <<"\n">>) \o <<"\n", "\n">>)
    ELSE content

\* the content createMeetingNote writes to the vault
noteContent(st, meta, transcription, files) ==
    withLinks(st,
      withDecisions(st,
        withActionItems(st, filledTemplate(meta, transcription),
                        extractActionItems(transcription)),
        extractDecisions(transcription)),
      findRelatedNotes(transcription, files))

\* --------------------------------------------- composing a note on its own
ComposeTexts == {
    <<>>,
    <<"W","e"," ","w","i","l","l"," ","s","e","n","d"," ","t","h","e"," ","r","e","p","o","r","t","."," ","W","e"," ","d","e","c","i","d","e","d"," ","t","o"," ","s","h","i","p"," ","t","h","e"," ","b","e","t","a","."," ","P","l","a","n"," ","a","h","e","a","d">>,
    <<"T","O","D","O",":"," ","c","a","l","l"," ","t","h","e"," ","v","e","n","d","o","r">> }

\* date, time, title, attendees and duration of the note
Meta == [date |-> <<"2","0","2","5","-","1","0","-","0","3">>, time |-> <<"1","0",":","3","0">>, title |-> <<"S","t","a","n","d","u","p">>,
         attendees |-> <<"A","n","n",","," ","B","o","b">>, duration |-> <<"0","0",":","0","5">>]

\* Titles as typed into the title field: a plain one, one that reads like a
\* placeholder of the template, one with dollar signs.
Metas == {Meta,
          [Meta EXCEPT !.title = <<"{","{","a","t","t","e","n","d","e","e","s","}","}">>],
          [Meta EXCEPT !.title = <<"B","u","d","g","e","t"," ","$","$">>]}

FeatureSettings ==
    {[DEFAULT_SETTINGS EXCEPT !.autoExtractActionItems = a, !.autoDetectDecisions = d,
                              !.autoLinkNotes = l] : a \in BOOLEAN, d \in BOOLEAN, l \in BOOLEAN}

InitCompose ==
    /\ basePath = <<"/vault">>
    /\ modelPresent = TRUE
    /\ fs = << >>
    /\ notes = {}
    /\ modal = [m \in Modals |-> NewModal]
    /\ run = [r \in Recorders |-> NewRun]
    /\ streams = {}
    /\ timers = {}
    /\ settings \in FeatureSettings
    /\ inText \in ComposeTexts
    /\ corpus \in {c \in Corpora : Len(c) <= 2}
    /\ noteMeta \in Metas
    /\ audioBuffer = NoAudio
    /\ result = NoResult

\* createMeetingNote builds the content from the template, the transcript,
\* the settings and the files of the vault.
ComposeNote ==
    /\ result = NoResult
    /\ result' = [fn |-> "createMeetingNote",
                  content |-> noteContent(settings, noteMeta, inText, corpus)]
    /\ UNCHANGED <<settings, inText, corpus, noteMeta, audioBuffer, basePath, modelPresent, fs, notes, modal,
                   run, streams, timers>>

NextCompose == ComposeNote

SpecCompose == InitCompose /\ [][NextCompose]_vars

\* the section of a document under the heading line h: from the heading to
\* the next heading of the same level (or to the end)
Section(doc, h) ==
    LET at == {i \in 1..Len(doc) :
                  StartsAt(doc, i, h \o <<"\n">>) /\ (i = 1 \/ doc[i - 1] = "\n")}
    IN  IF at = {} THEN <<>>
        ELSE LET i == CHOOSE x \in at : \A y \in at : x <= y
                 next == IndexOf(doc, <<"\n","#","#"," ">>, i)
             IN  SubSeq(doc, i, IF next = 0 THEN Len(doc) ELSE next)

AllIn(list, text) == \A k \in 1..Len(list) : IsSubstring(list[k], text)

\* C20: when a feature is enabled and its list is not empty, every entry of
\* the list stands in its section of the note: action items under
\* '## Action Items', decisions under '## Decisions Made', links under
\* '## Related Notes'; the transcript stands under '## Discussion'.
C20_EntriesInTheirSections ==
    result.fn = "createMeetingNote" =>
        /\ settings.autoExtractActionItems =>
              AllIn(extractActionItems(inText), Section(result.content, <<"#","#"," ","A","c","t","i","o","n"," ","I","t","e","m","s">>))
        /\ settings.autoDetectDecisions =>
              AllIn(extractDecisions(inText), Section(result.content, <<"#","#"," ","D","e","c","i","s","i","o","n","s"," ","M","a","d","e">>))
        /\ settings.autoLinkNotes =>
              AllIn(findRelatedNotes(inText, corpus), Section(result.content, <<"#","#"," ","R","e","l","a","t","e","d"," ","N","o","t","e","s">>))
        /\ IsSubstring(inText, Section(result.content, <<"#","#"," ","D","i","s","c","u","s","s","i","o","n">>))

\* ---------------------------------------------------------------------------
\* Level meter, progress reports, sidecar path, overlapping starts
\* ---------------------------------------------------------------------------

\* C25: while a recording is in progress its level-meter loop is running:
\* the next updateLevel call is scheduled, so the meter keeps being updated.
C25_LevelLoopRunsWhileRecording ==
    \A r \in Recorders :
        (run[r].rec = "recording" /\ modal[run[r].owner].isRecording)
            => run[r].levelLoop = "scheduled"

ProgressOrder == <<10, 30, 70, 90, 100>>

IsPrefix(s, t) == Len(s) <= Len(t) /\ SubSeq(t, 1, Len(s)) = s

Reported(r, percent) == \E i \in 1..Len(run[r].reported) : run[r].reported[i] = percent

\* C26: the progress values of one run are reported in the order 10, 30, 70,
\* 90, 100 without repetition; 100 is reported only once the note of the run
\* has been created; a run that failed on a missing model or an engine error
\* reported nothing above 30.
C26_ProgressIncreasing ==
    \A r \in Recorders :
        /\ IsPrefix(run[r].reported, ProgressOrder)
        /\ Reported(r, 100) =>
               /\ run[r].notice = "noteCreated"
               /\ \E n \in notes : n.run = r
        /\ run[r].notice \in {"modelMissing", "transcriptionFailed"} =>
               \A i \in 1..Len(run[r].reported) : run[r].reported[i] <= 30

\* C26 witness: one run reported all five values, and a run of the same
\* behaviour stopped at the vault.create rejection after 90.
C26_Witness ==
    \E r, q \in Recorders :
        /\ run[r].reported = ProgressOrder
        /\ run[q].pc = "crashed"
        /\ run[q].reported = <<10, 30, 70, 90>>

\* The exec callback of run r takes its success branch while the engine's
\* sidecar is on disk.
ReadsSidecar(r) ==
    /\ run[r].pc = "exited"
    /\ ~run[r].error
    /\ run'[r].pc \in {"composing", "crashed"}
    /\ Exists(fs, engineSidecarPath(audioPath))

\* C27: the callback reads the transcript from audioPath + '.txt', the file
\* the engine wrote, and deletes that file, whatever the directory prefix.
C27_SidecarAtAudioPathTxt ==
    [][\A r \in Recorders :
          ReadsSidecar(r) =>
              /\ run'[r].sidecarRead
              /\ run'[r].transcription = Trim(fs[engineSidecarPath(audioPath)])
              /\ ~Exists(fs', engineSidecarPath(audioPath))]_vars

\* C29: a modal has at most one started MediaRecorder and at most one
\* running timer interval.
C29_OneRecorderOneTimerPerModal ==
    \A m \in Modals :
        /\ Cardinality({r \in RunsOf(m) : run[r].rec = "recording"}) <= 1
        /\ Cardinality(timers \cap RunsOf(m)) <= 1

\* ---------------------------------------------------------------------------
\* Length threshold of the extractors; related notes of an empty transcript
\* ---------------------------------------------------------------------------

\* every trimmed capture of the patterns, pattern by pattern
RECURSIVE AllCaptured(_, _, _)
AllCaptured(s, patterns, n) ==
    IF n > Len(patterns) THEN <<>>
    ELSE Captured(s, patterns[n]) \o AllCaptured(s, patterns, n + 1)

\* Every capture of 10 or more characters is among the entries pushed
\* (before the cap), and no entry has a text shorter than 10 characters.
KeptFromTen(s, patterns, bullet, pushed, items) ==
    LET caps == AllCaptured(s, patterns, 1)
    IN  /\ \A k \in 1..Len(caps) :
              Len(caps[k]) >= 10 => includes(pushed, bullet \o caps[k])
        /\ \A k \in 1..Len(items) : Len(items[k]) - Len(bullet) >= 10

\* C28: a trimmed capture is discarded exactly when it is shorter than 10
\* characters: a capture of length 10 or more is kept (subject to
\* de-duplication and the cap) and a shorter one never appears.
C28_DiscardedExactlyBelowTen ==
    /\ result.fn = "extractActionItems" =>
          KeptFromTen(inText, actionPatterns, ActionBullet,
                      pushedActionItems(inText), result.items)
    /\ result.fn = "extractDecisions" =>
          KeptFromTen(inText, decisionPatterns, DecisionBullet,
                      pushedDecisions(inText), result.items)

\* C30: for the empty transcript findRelatedNotes returns the empty list,
\* whatever the notes of the vault are.
C30_EmptyTranscriptNoLinks ==
    (result.fn = "findRelatedNotes" /\ inText = <<>>) => result.items = <<>>

\* ---------------------------------------------------------------------------
\* Literal substitution of the metadata and the transcript
\* ---------------------------------------------------------------------------

Placeholders ==
    [date |-> <<"{","{","d","a","t","e","}","}">>,
     time |-> <<"{","{","t","i","m","e","}","}">>,
     title |-> <<"{","{","t","i","t","l","e","}","}">>,
     attendees |-> <<"{","{","a","t","t","e","n","d","e","e","s","}","}">>,
     duration |-> <<"{","{","d","u","r","a","t","i","o","n","}","}">>,
     transcription |-> <<"{","{","t","r","a","n","s","c","r","i","p","t","i","o","n","}","}">>]

Supplied(m, transcription) ==
    [date |-> m.date, time |-> m.time, title |-> m.title, attendees |-> m.attendees,
     duration |-> m.duration, transcription |-> transcription]

RECURSIVE LiteralFill(_, _, _)
\* tpl from position from on, every placeholder standing in tpl replaced by
\* the value supplied for it, the values taken as they are
LiteralFill(tpl, from, values) ==
    LET at == {i \in from..Len(tpl) :
                  \E k \in DOMAIN Placeholders : StartsAt(tpl, i, Placeholders[k])}
    IN  IF at = {} THEN SubSeq(tpl, from, Len(tpl))
        ELSE LET i == CHOOSE x \in at : \A y \in at : x <= y
                 k == CHOOSE x \in DOMAIN Placeholders : StartsAt(tpl, i, Placeholders[x])
             IN  SubSeq(tpl, from, i - 1) \o values[k]
                 \o LiteralFill(tpl, i + Len(Placeholders[k]), values)

\* C22: the note is the template with each placeholder replaced by exactly
\* the value supplied for it (and the lists spliced into that text): no
\* supplied value is changed by a later substitution.
C22_ValuesSubstitutedLiterally ==
    result.fn = "createMeetingNote" =>
        result.content =
            withLinks(settings,
              withDecisions(settings,
                withActionItems(settings,
                    LiteralFill(MEETING_TEMPLATE, 1, Supplied(noteMeta, inText)),
                    extractActionItems(inText)),
                extractDecisions(inText)),
              findRelatedNotes(inText, corpus))

\* ---------------------------------------------------------------------------
\* Sections of a feature that is switched off or has nothing to add
\* ---------------------------------------------------------------------------

AsInTemplate(doc, h) == Section(doc, h) = Section(MEETING_TEMPLATE, h)

\* C21: the section of a feature that is disabled, or whose list is empty,
\* is exactly the section of the unpopulated template; the sections no
\* feature writes to are as in the template whatever the features do.
C21_UnpopulatedSectionsAsTemplate ==
    result.fn = "createMeetingNote" =>
        /\ (~settings.autoExtractActionItems \/ extractActionItems(inText) = <<>>)
              => AsInTemplate(result.content, <<"#","#"," ","A","c","t","i","o","n"," ","I","t","e","m","s">>)
        /\ (~settings.autoDetectDecisions \/ extractDecisions(inText) = <<>>)
              => AsInTemplate(result.content, <<"#","#"," ","D","e","c","i","s","i","o","n","s"," ","M","a","d","e">>)
        /\ (~settings.autoLinkNotes \/ findRelatedNotes(inText, corpus) = <<>>)
              => AsInTemplate(result.content, <<"#","#"," ","R","e","l","a","t","e","d"," ","N","o","t","e","s">>)
        /\ AsInTemplate(result.content, <<"#","#"," ","A","g","e","n","d","a">>)
        /\ AsInTemplate(result.content, <<"#","#"," ","F","o","l","l","o","w","-","u","p"," ","Q","u","e","s","t","i","o","n","s">>)

\* C21 witness: decision detection is switched off for a transcript that
\* has decisions, while the links of the same note were spliced in.
C21_Witness ==
    /\ result.fn = "createMeetingNote"
    /\ ~settings.autoDetectDecisions
    /\ extractDecisions(inText) # <<>>
    /\ settings.autoLinkNotes
    /\ findRelatedNotes(inText, corpus) # <<>>
    /\ ~AsInTemplate(result.content, <<"#","#"," ","R","e","l","a","t","e","d"," ","N","o","t","e","s">>)

\* ---------------------------------------------------------------------------
\* AudioConverter: double-precision arithmetic, resample, encodeWav
\* ---------------------------------------------------------------------------

\* Numerals in base 2: sequences of bits, the most significant first.
RECURSIVE ToBits(_)
ToBits(n) == IF n = 0 THEN <<>> ELSE Append(ToBits(n \div 2), n % 2)

RECURSIVE FromBits(_)
FromBits(b) ==
    IF b = <<>> THEN 0 ELSE 2 * FromBits(SubSeq(b, 1, Len(b) - 1)) + b[Len(b)]

Zeros(k) == SubSeq([i \in 1..k |-> 0], 1, k)

\* The operators on numerals halve their range instead of walking it bit
\* by bit, which keeps the evaluation shallow.

RECURSIVE Compare(_, _, _, _)
\* the sign of a - b on the bits lo..hi
Compare(a, b, lo, hi) ==
    IF lo = hi THEN a[lo] - b[lo]
    ELSE LET mid == (lo + hi) \div 2
             high == Compare(a, b, lo, mid)
         IN  IF high # 0 THEN high ELSE Compare(a, b, mid + 1, hi)

RECURSIVE MinusOn(_, _, _, _, _)
\* the bits lo..hi of a - b and the borrow they pass on, borrow being what
\* the bits to their right took
MinusOn(a, b, lo, hi, borrow) ==
    IF lo = hi
    THEN LET d == a[lo] - b[lo] - borrow
         IN  [bits |-> <<(d + 2) % 2>>, borrow |-> IF d < 0 THEN 1 ELSE 0]
    ELSE LET mid == (lo + hi) \div 2
             low == MinusOn(a, b, mid + 1, hi, borrow)
             high == IF low.borrow = 1 THEN MinusOn(a, b, lo, mid, 1)
                     ELSE MinusOn(a, b, lo, mid, 0)
         IN  [bits |-> high.bits \o low.bits, borrow |-> high.borrow]

\* a - b, for numerals of one length with a >= b
Minus(a, b) == MinusOn(a, b, 1, Len(a), 0).bits

\* The significand of a double has 53 bits.
Precision == 53

\* A double greater than 0 is [m, e]: the 53 bits of its significand, the
\* first of them 1, and the exponent of that first bit.  ToDouble(n) is the
\* double of the integer n > 0 (exact below 2^53).
ToDouble(n) ==
    LET b == ToBits(n) IN [m |-> b \o Zeros(Precision - Len(b)), e |-> Len(b) - 1]

RECURSIVE LongDivision(_, _, _)
\* the next count bits of the quotient rem / den, and the remainder left
LongDivision(rem, den, count) ==
    IF count = 1
    THEN LET twice == Append(Tail(rem), 0)
             fits == Compare(twice, den, 1, Len(den)) >= 0
         IN  [bits |-> <<IF fits THEN 1 ELSE 0>>,
              rem |-> IF fits THEN Minus(twice, den) ELSE twice]
    ELSE LET first == LongDivision(rem, den, count \div 2)
             rest == LongDivision(first.rem, den, count - count \div 2)
         IN  [bits |-> first.bits \o rest.bits, rem |-> rest.rem]

\* x / y in double precision: the quotient of the significands is taken to
\* 55 bits and rounded to 53, to the nearest double, a tie to the even one.
Divide(x, y) ==
    LET num == <<0>> \o x.m
        den == <<0>> \o y.m
        first == Compare(num, den, 1, Len(den)) >= 0
        d == LongDivision(IF first THEN Minus(num, den) ELSE num, den, Precision + 1)
        q == <<IF first THEN 1 ELSE 0>> \o d.bits
        lead == IF first THEN 1 ELSE 2
        mant == SubSeq(q, lead, lead + Precision - 1)
        guard == q[lead + Precision]
        sticky == \/ first /\ q[Precision + 2] = 1
                  \/ \E i \in 1..Len(d.rem) : d.rem[i] = 1
        up == guard = 1 /\ (sticky \/ mant[Precision] = 1)
        e == x.e - y.e - (lead - 1)
        \* the last 0 bit of mant; mant + 1 sets it and clears the bits after it
        z == CHOOSE i \in 1..Precision :
                 mant[i] = 0 /\ \A j \in (i + 1)..Precision : mant[j] = 1
    IN  IF ~up THEN [m |-> mant, e |-> e]
        ELSE IF \A i \in 1..Precision : mant[i] = 1
             THEN [m |-> <<1>> \o Zeros(Precision - 1), e |-> e + 1]
             ELSE [m |-> SubSeq(mant, 1, z - 1) \o <<1>> \o Zeros(Precision - z), e |-> e]

\* Math.round of a double greater than 0 and below 2^31: the integer part,
\* and one more when the fraction is a half or above.
MathRound(x) ==
    IF x.e < -1 THEN 0
    ELSE IF x.e = -1 THEN 1
    ELSE FromBits(SubSeq(x.m, 1, x.e + 1))
         + (IF x.e + 2 <= Precision THEN x.m[x.e + 2] ELSE 0)

\* The recordings examined are silent: every sample of every channel is 0,
\* so every sample computed from them (a mean of two samples, a weighted sum
\* of two neighbours) is 0 whatever the rounding.  Lengths, rates and the
\* bytes of the file are computed as the code computes them.
getChannelData(buf, channel) == Zeros(buf.length)

\* resample, were the new length cut off instead of rounded
resample_LengthCutOff(audioData, sourceSampleRate, targetSampleRate) ==
    IF sourceSampleRate = targetSampleRate THEN audioData
    ELSE LET ratio == Divide(ToDouble(sourceSampleRate), ToDouble(targetSampleRate))
             quotient == Divide(ToDouble(Len(audioData)), ratio)
             newLength == IF Len(audioData) = 0 \/ quotient.e < 0 THEN 0
                          ELSE FromBits(SubSeq(quotient.m, 1, quotient.e + 1))
         IN  Zeros(newLength)

\* resample: ratio and newLength are doubles; 0 / ratio is 0.
resample(audioData, sourceSampleRate, targetSampleRate) ==
    IF sourceSampleRate = targetSampleRate THEN audioData
    ELSE LET ratio == Divide(ToDouble(sourceSampleRate), ToDouble(targetSampleRate))
             newLength == IF Len(audioData) = 0 THEN 0
                          ELSE MathRound(Divide(ToDouble(Len(audioData)), ratio))
         IN  Zeros(newLength)

\* DataView: the bytes of a buffer, offsets counted from 0
setBytes(view, offset, bytes) ==
    SubSeq(view, 1, offset) \o bytes \o SubSeq(view, offset + Len(bytes) + 1, Len(view))

\* little-endian
setUint16(view, offset, v) == setBytes(view, offset, <<v % 256, (v \div 256) % 256>>)

setUint32(view, offset, v) ==
    setBytes(view, offset, <<v % 256, (v \div 256) % 256, (v \div 65536) % 256,
                             (v \div 16777216) % 256>>)

writeString(view, offset, string) ==
    LET charCodeAt ==
            ("R" :> 82) @@ ("I" :> 73) @@ ("F" :> 70) @@ ("W" :> 87) @@ ("A" :> 65) @@
            ("V" :> 86) @@ ("E" :> 69) @@ ("f" :> 102) @@ ("m" :> 109) @@ ("t" :> 116) @@
            (" " :> 32) @@ ("d" :> 100) @@ ("a" :> 97)
    IN  setBytes(view, offset, SubSeq([i \in 1..Len(string) |-> charCodeAt[string[i]]],
                                      1, Len(string)))

RECURSIVE writeSamples(_, _, _)
\* the loop of encodeWav over the samples i, i+1, ... (i counted from 0);
\* setInt16 writes the two's complement of a sample as setUint16 would
writeSamples(view, samples, i) ==
    IF i >= Len(samples) THEN view
    ELSE writeSamples(setUint16(view, 44 + i * 2, (samples[i + 1] + 65536) % 65536),
                      samples, i + 1)

\* encodeWav, were the RIFF chunk size the size of the whole file
encodeWav_RiffSizeOfFile(samples, sampleRate, numChannels) ==
    LET bytesPerSample == 2
        blockAlign == numChannels * bytesPerSample
        byteRate == sampleRate * blockAlign
        dataSize == Len(samples) * bytesPerSample
        b1 == writeString(Zeros(44 + dataSize), 0, <<"R", "I", "F", "F">>)
        b2 == setUint32(b1, 4, 44 + dataSize)
        b3 == writeString(writeString(b2, 8, <<"W", "A", "V", "E">>), 12, <<"f", "m", "t", " ">>)
        b4 == setUint16(setUint16(setUint32(b3, 16, 16), 20, 1), 22, numChannels)
        b5 == setUint32(setUint32(b4, 24, sampleRate), 28, byteRate)
        b6 == setUint16(setUint16(b5, 32, blockAlign), 34, 16)
        b7 == setUint32(writeString(b6, 36, <<"d", "a", "t", "a">>), 40, dataSize)
    IN  writeSamples(b7, samples, 0)

encodeWav(samples, sampleRate, numChannels) ==
    LET bytesPerSample == 2
        blockAlign == numChannels * bytesPerSample
        byteRate == sampleRate * blockAlign
        dataSize == Len(samples) * bytesPerSample
        b1 == writeString(Zeros(44 + dataSize), 0, <<"R", "I", "F", "F">>)
        b2 == setUint32(b1, 4, 36 + dataSize)
        b3 == writeString(writeString(b2, 8, <<"W", "A", "V", "E">>), 12, <<"f", "m", "t", " ">>)
        b4 == setUint16(setUint16(setUint32(b3, 16, 16), 20, 1), 22, numChannels)
        b5 == setUint32(setUint32(b4, 24, sampleRate), 28, byteRate)
        b6 == setUint16(setUint16(b5, 32, blockAlign), 34, 16)
        b7 == setUint32(writeString(b6, 36, <<"d", "a", "t", "a">>), 40, dataSize)
    IN  writeSamples(b7, samples, 0)

\* the samples handed to resample: one channel, or the mean of the first two
mixedDown(buf) ==
    IF buf.numberOfChannels > 1
    THEN LET left == getChannelData(buf, 0)
             right == getChannelData(buf, 1)
         IN  SubSeq([i \in 1..Len(left) |-> (left[i] + right[i]) \div 2], 1, Len(left))
    ELSE getChannelData(buf, 0)

\* a sample clamped to [-1, 1] and scaled to 16 bits
toInt16(sample) ==
    LET s == IF sample < -1 THEN -1 ELSE IF sample > 1 THEN 1 ELSE sample
    IN  IF s < 0 THEN s * 32768 ELSE s * 32767

audioBufferToWav(buf) ==
    LET sampleRate == 16000
        numChannels == 1
        resampledData == resample(mixedDown(buf), buf.sampleRate, sampleRate)
        int16Data == SubSeq([i \in 1..Len(resampledData) |-> toInt16(resampledData[i])],
                            1, Len(resampledData))
    IN  encodeWav(int16Data, sampleRate, numChannels)

\* --------------------------------------------- the converter on its own
MaxSamples == 7

\* rates of audio hardware
StandardRates == {8000, 11025, 16000, 22050, 32000, 44100, 48000, 96000}

\* recordings at those rates and at one rate that is none of them
AudioBuffers ==
    {[numberOfChannels |-> c, sampleRate |-> rate, length |-> n] :
        c \in {1, 2}, rate \in StandardRates \cup {8960}, n \in 0..MaxSamples}

InitWav ==
    /\ basePath = <<"/vault">>
    /\ modelPresent = TRUE
    /\ fs = << >>
    /\ notes = {}
    /\ modal = [m \in Modals |-> NewModal]
    /\ run = [r \in Recorders |-> NewRun]
    /\ streams = {}
    /\ timers = {}
    /\ settings = DEFAULT_SETTINGS
    /\ inText = <<>>
    /\ corpus = <<>>
    /\ noteMeta = NoMeta
    /\ audioBuffer \in AudioBuffers
    /\ result = NoResult

CallResample ==
    /\ result = NoResult
    /\ result' = [fn |-> "resample",
                  samples |-> resample(getChannelData(audioBuffer, 0),
                                       audioBuffer.sampleRate, 16000)]
    /\ UNCHANGED <<settings, inText, corpus, noteMeta, audioBuffer, basePath, modelPresent,
                   fs, notes, modal, run, streams, timers>>

CallAudioBufferToWav ==
    /\ result = NoResult
    /\ result' = [fn |-> "audioBufferToWav", wav |-> audioBufferToWav(audioBuffer)]
    /\ UNCHANGED <<settings, inText, corpus, noteMeta, audioBuffer, basePath, modelPresent,
                   fs, notes, modal, run, streams, timers>>

NextWav == CallResample \/ CallAudioBufferToWav

SpecWav == InitWav /\ [][NextWav]_vars

\* DataView.getUint32, little-endian
getUint32(view, offset) ==
    view[offset + 1] + 256 * view[offset + 2] + 65536 * view[offset + 3]
    + 16777216 * view[offset + 4]

\* C23: the buffer audioBufferToWav returns has 44 + dataSize bytes, where
\* dataSize, the field at offset 40, is two bytes for each sample resample
\* returned; the field at offset 4 is 36 + dataSize and the sample-rate
\* field at offset 24 is 16000 whatever the rate of the input.
C23_WavHeaderConsistent ==
    result.fn = "audioBufferToWav" =>
        LET dataSize == getUint32(result.wav, 40)
        IN  /\ Len(result.wav) = 44 + dataSize
            /\ dataSize = 2 * Len(resample(mixedDown(audioBuffer),
                                           audioBuffer.sampleRate, 16000))
            /\ getUint32(result.wav, 4) = 36 + dataSize
            /\ getUint32(result.wav, 24) = 16000

\* C23 witness: a stereo recording at 44100 Hz was encoded, with samples in
\* the payload.
C23_Witness ==
    /\ result.fn = "audioBufferToWav"
    /\ audioBuffer.numberOfChannels = 2
    /\ audioBuffer.sampleRate = 44100
    /\ Len(result.wav) > 44

\* n * 16000 / R rounded to the nearest integer, a half rounded up
RoundedLength(n, R) == (2 * n * 16000 + R) \div (2 * R)

\* what the function examined returned for the input, in samples
LengthIs(k) ==
    /\ result.fn = "resample" => Len(result.samples) = k
    /\ result.fn = "audioBufferToWav" => Len(result.wav) - 44 = 2 * k

\* C24 (as claimed): for every source rate R and length n, resample returns
\* round(n * 16000 / R) samples and the payload has twice as many bytes.
C24_LengthForEveryRate ==
    LengthIs(RoundedLength(audioBuffer.length, audioBuffer.sampleRate))

\* C24 (amended): the same, for the rates of audio hardware.
C24_LengthForStandardRates ==
    audioBuffer.sampleRate \in StandardRates =>
        LengthIs(RoundedLength(audioBuffer.length, audioBuffer.sampleRate))

\* C24 witness: 3 samples at 32000 Hz, a length of exactly 1.5 samples at
\* 16000 Hz, were resampled to 2.
C24_Witness ==
    /\ result.fn = "resample"
    /\ audioBuffer.sampleRate = 32000
    /\ audioBuffer.length = 3
    /\ Len(result.samples) = 2

====
